---- MODULE Spec2Model ----
(***************************************************************************)
(* Model of mawo_razdel/syntagrus_patterns.py: the SynTagRus sentence     *)
(* segmentation rule engine (rule table, boundary scan, blocking checks,  *)
(* quality score) and the process-wide cached engine instance.            *)
(*                                                                         *)
(* Conventions.  A text is a sequence of Unicode code points (Python str  *)
(* indexes by code point).  Offsets are Python's: 0-based, so the         *)
(* character text[i] of the source is Char(text, i) here and the slice    *)
(* text[a:b] is Slice(text, a, b).  The character classes are given for   *)
(* the code points of ASCII, U+00AB and the Russian letters (U+0401,      *)
(* U+0410..U+044F, U+0451), which is where every modelled input lives.    *)
(* A score is held in twentieths: 20 stands for 1.0, the penalties 0.1,   *)
(* 0.15 and 0.2 are 2, 3 and 4.                                           *)
(***************************************************************************)
EXTENDS Integers, Sequences, FiniteSets, TLC

VARIABLES
  rules,            \* self.rules: the rule table of the engine instance
  pc,               \* position of the sequential caller
  text,             \* the text handed to find_sentence_boundaries
  boundaries,       \* the list find_sentence_boundaries returned
  score,            \* what get_quality_score returned, in twentieths
  prefixLen,        \* length of the prefix P of text that was scanned too
  prefixBoundaries, \* the list find_sentence_boundaries returned for P
  global_patterns,  \* module global _global_patterns (0 is None)
  constructed,      \* number of SynTagRusPatterns() constructions so far
  tpc,              \* per thread: position inside its current call
  tlocal,           \* per thread: the instance it has just constructed
  tret,             \* per thread: what its last get_syntagrus_patterns returned
  ttext,            \* per thread: the text of its find_sentence_boundaries call
  tacc,             \* per thread: the local list `boundaries` being filled
  tidx,             \* per thread: index of the rule its loop is at
  tsorted,          \* per thread: the sorted copy of the rule table it iterates
  tresult,          \* per thread: the list its call returned
  tscore            \* per thread: what its get_quality_score returned

vars == <<rules, pc, text, boundaries, score, prefixLen, prefixBoundaries,
          global_patterns, constructed, tpc, tlocal, tret,
          ttext, tacc, tidx, tsorted, tresult, tscore>>

(***************************************************************************)
(* Bounds of the model.                                                    *)
(***************************************************************************)
MaxLen == 5
MaxSegs == 3
NThreads == 2

(***************************************************************************)
(* Small helpers.                                                          *)
(***************************************************************************)
Max(a, b) == IF a >= b THEN a ELSE b
Min(a, b) == IF a <= b THEN a ELSE b
SetMax(S) == CHOOSE x \in S : \A y \in S : y <= x
SetMin(S) == CHOOSE x \in S : \A y \in S : x <= y

\* text[i], Python's 0-based indexing
Char(t, i) == t[i + 1]
\* text[a:b] for 0 <= a, b: Python clips b to len(text) and gives "" when a >= b
Slice(t, a, b) == SubSeq(t, a + 1, Min(b, Len(t)))

(***************************************************************************)
(* Character classes, as Python's str methods and the re module see them.  *)
(***************************************************************************)
\* \s of a str pattern, and what str.strip() removes
Space == {9, 10, 11, 12, 13, 28, 29, 30, 31, 32}
\* [.!?]
EndPunct == {46, 33, 63}
\* [!?]
QuestExcl == {33, 63}
\* [А-ЯЁ]
UpperCyr == (1040..1071) \cup {1025}
\* [а-яё]
LowerCyr == (1072..1103) \cup {1105}
\* [А-ЯЁ«"'(]
Opener == UpperCyr \cup {171, 34, 39, 40}
\* str.isdigit()
Digit == 48..57
\* \w: what \b takes for a word character
WordChar == Digit \cup (65..90) \cup {95} \cup (97..122) \cup UpperCyr \cup LowerCyr
\* str.islower() of one character
LowerCase == (97..122) \cup LowerCyr

\* str.lower() of one character
LowerChar(c) ==
  IF c \in 65..90 \/ c \in 1040..1071 THEN c + 32
  ELSE IF c = 1025 THEN 1105
  ELSE c

\* str.lower()
Lower(s) == [i \in 1..Len(s) |-> LowerChar(s[i])]

\* str.strip()
Strip(s) ==
  LET keep == {i \in 1..Len(s) : s[i] \notin Space}
  IN IF keep = {} THEN <<>> ELSE SubSeq(s, SetMin(keep), SetMax(keep))

\* the first offset k >= i at which the run of characters of class C that
\* starts at i ends (k = len(text) when the run reaches the end)
RunEnd(t, i, C) ==
  SetMin({k \in i..Len(t) : k = Len(t) \/ Char(t, k) \notin C})

(***************************************************************************)
(* The exception set (class attribute ABBREVIATIONS, lines 37-137).        *)
(***************************************************************************)
ABBREVIATIONS ==
  {
    <<1075>>, <<1075, 1075>>, <<1075, 45, 1085>>,
    <<1075, 45, 1078, 1072>>, <<1091, 1083>>, <<1087, 1088>>,
    <<1087, 1083>>, <<1087, 1077, 1088>>, <<1087, 1088, 1086, 1089, 1087>>,
    <<1085, 1072, 1073>>, <<1076>>, <<1076, 1086, 1084>>,
    <<1082, 1086, 1088, 1087>>, <<1089, 1090, 1088>>, <<1082, 1074>>,
    <<1086, 1073, 1083>>, <<1088, 45, 1085>>, <<1087>>,
    <<1089>>, <<1076, 1077, 1088>>, <<1087, 1086, 1089>>,
    <<1072, 1082, 1072, 1076>>, <<1087, 1088, 1086, 1092>>, <<1076, 1086, 1094>>,
    <<1082>>, <<1082, 1072, 1085, 1076>>, <<1076, 1086, 1082, 1090>>,
    <<1084>>, <<1085>>, <<1084, 1083>>,
    <<1089, 1090>>, <<1080, 1084>>, <<1075, 1077, 1085>>,
    <<1087, 1086, 1083, 1082>>, <<1087, 1086, 1076, 1087>>, <<1083, 1077, 1081, 1090>>,
    <<1082, 1072, 1087>>, <<1074>>, <<1074, 1074>>,
    <<1088>>, <<1088, 1091, 1073>>, <<1082, 1086, 1087>>,
    <<1095>>, <<1095, 1072, 1089>>, <<1084, 1080, 1085>>,
    <<1089, 1077, 1082>>, <<1090>>, <<1090, 1090>>,
    <<1087, 1087>>, <<1088, 1080, 1089>>, <<1080, 1083, 1083>>,
    <<1090, 1072, 1073, 1083>>, <<1089, 1084>>, <<1089, 1088>>,
    <<1085, 1072, 1087, 1088>>, <<1074, 32, 1090, 46, 1095>>, <<1080, 32, 1090, 46, 1076>>,
    <<1080, 32, 1090, 46, 1087>>, <<1080, 32, 1076, 1088>>, <<1076, 1088>>,
    <<1087, 1088, 1086, 1095>>, <<1087, 1088, 1080, 1084>>, <<1087, 1088, 1080, 1084, 1077, 1095>>,
    <<1082, 1075>>, <<1084, 1075>>, <<1094>>,
    <<1083>>, <<1084, 1084>>, <<1082, 1084>>,
    <<1075, 1072>>, <<1084, 1083, 1085>>, <<1084, 1083, 1088, 1076>>,
    <<1090, 1099, 1089>>, <<1090, 1088, 1083, 1085>>, <<1086, 45, 1074, 1086>>,
    <<1086, 45, 1074, 1072>>, <<1086, 45, 1085, 1080, 1077>>, <<1086, 45, 1085, 1080, 1103>>,
    <<1079, 1072, 1084>>, <<1087, 1086, 1084>>, <<1079, 1072, 1074>>,
    <<1085, 1072, 1095>>, <<101, 116, 99>>, <<101, 116, 32, 97, 108>>,
    <<105, 98, 105, 100>>, <<111, 112, 32, 99, 105, 116>>, <<1072, 1085, 1075, 1083>>,
    <<1085, 1077, 1084>>, <<1092, 1088, 1072, 1085, 1094>>, <<1080, 1090, 1072, 1083>>,
    <<1080, 1089, 1087>>
  }

(***************************************************************************)
(* The rule table (_compile_patterns, lines 189-215).  A compiled pattern  *)
(* is named by its rule; Match gives what it matches.                      *)
(***************************************************************************)
CompiledRules ==
  << [name |-> "sentence_end_capital", is_boundary |-> TRUE, priority |-> 50],
     [name |-> "paragraph_end",        is_boundary |-> TRUE, priority |-> 45],
     [name |-> "question_exclamation", is_boundary |-> TRUE, priority |-> 40] >>

(***************************************************************************)
(* re matching.  Each Match operator gives match.end() of the match that   *)
(* begins at offset s, or -1 when the pattern does not match there.  A     *)
(* backtracking matcher returns the first success in its order of          *)
(* preference: every greedy quantifier as long as possible, the earlier    *)
(* quantifier first.  The sets below are the successful ways to match and  *)
(* the nested maxima pick the preferred one.                               *)
(***************************************************************************)

\* [.!?]+\s+(?=[А-ЯЁ«"'(])   (line 194)
MatchSentenceEndCapital_NoLookahead(t, s) ==
  \* the pattern without its lookahead, [.!?]+\s+ : any next character will do
  LET pe == RunEnd(t, s, EndPunct)
  IN IF s >= Len(t) \/ pe = s \/ RunEnd(t, pe, Space) = pe THEN -1
     ELSE RunEnd(t, pe, Space)

MatchSentenceEndCapital(t, s) ==
  LET n    == Len(t)
      \* j: end of [.!?]+ ; k: end of \s+ ; the lookahead reads text[k]
      Ks(j) == {k \in (j + 1)..RunEnd(t, j, Space) : k < n /\ Char(t, k) \in Opener}
      Js   == {j \in (s + 1)..RunEnd(t, s, EndPunct) : Ks(j) # {}}
  IN IF s >= n \/ Js = {} THEN -1 ELSE SetMax(Ks(SetMax(Js)))

\* [.!?]+\s*\n\s*\n          (line 202)
MatchParagraphEnd(t, s) ==
  LET n    == Len(t)
      \* j: end of [.!?]+ ; a: offset of the first \n ; b: offset of the second
      Bs(a)  == {b \in (a + 1)..RunEnd(t, a + 1, Space) : b < n /\ Char(t, b) = 10}
      As(j)  == {a \in j..RunEnd(t, j, Space) : a < n /\ Char(t, a) = 10 /\ Bs(a) # {}}
      Js     == {j \in (s + 1)..RunEnd(t, s, EndPunct) : As(j) # {}}
  IN IF s >= n \/ Js = {} THEN -1
     ELSE SetMax(Bs(SetMax(As(SetMax(Js))))) + 1

\* [!?]+\s+                  (line 210)
MatchQuestionExclamation_Loose(t, s) ==
  \* the pattern miswritten [.!?]+\s* : any end punctuation, whitespace optional
  IF s >= Len(t) \/ RunEnd(t, s, EndPunct) = s THEN -1
  ELSE RunEnd(t, RunEnd(t, s, EndPunct), Space)

MatchQuestionExclamation(t, s) ==
  LET n    == Len(t)
      Ks(j) == (j + 1)..RunEnd(t, j, Space)
      Js   == {j \in (s + 1)..RunEnd(t, s, QuestExcl) : Ks(j) # {}}
  IN IF s >= n \/ Js = {} THEN -1 ELSE SetMax(Ks(SetMax(Js)))

\* rule.pattern matched at offset s
Match(name, t, s) ==
  CASE name = "sentence_end_capital" -> MatchSentenceEndCapital(t, s)
    [] name = "paragraph_end"        -> MatchParagraphEnd(t, s)
    [] name = "question_exclamation" -> MatchQuestionExclamation(t, s)

\* [match.end() for match in pattern.finditer(text)], scanning from offset
\* `from`: the leftmost match is taken and the scan resumes at its end (the
\* matches are never empty).
RECURSIVE FindIter(_, _, _)
FindIter_FirstOnly(name, t, from) ==
  \* pattern.search in place of pattern.finditer: the first match only
  LET starts == {s \in from..(Len(t) - 1) : Match(name, t, s) # -1}
  IN IF starts = {} THEN <<>> ELSE <<Match(name, t, SetMin(starts))>>

FindIter(name, t, from) ==
  LET starts == {s \in from..(Len(t) - 1) : Match(name, t, s) # -1}
  IN IF starts = {} THEN <<>>
     ELSE LET e == Match(name, t, SetMin(starts))
          IN <<e>> \o FindIter(name, t, e)

\* \b at offset i of s: exactly one side of the offset is a word character
WordBoundary(s, i) ==
  (i > 0 /\ Char(s, i - 1) \in WordChar) # (i < Len(s) /\ Char(s, i) \in WordChar)

\* self.initials_pattern.search(c) is not None, for
\* \b[А-ЯЁ]\.\s*(?:[А-ЯЁ]\.\s*)?[А-ЯЁ][а-яё]+\b      (line 222)
InitialsSearch(c) ==
  LET n == Len(c)
      \* [А-ЯЁ][а-яё]+\b beginning at offset u
      Surname(u) ==
        /\ u < n /\ Char(c, u) \in UpperCyr
        /\ \E m \in (u + 2)..RunEnd(c, u + 1, LowerCyr) : WordBoundary(c, m)
      \* [А-ЯЁ]\.\s* beginning at offset a: the offsets at which it can end
      Initial(a) ==
        IF a + 1 < n /\ Char(c, a) \in UpperCyr /\ Char(c, a + 1) = 46
        THEN (a + 2)..RunEnd(c, a + 2, Space)
        ELSE {}
  IN \E s \in 0..(n - 1) :
       /\ WordBoundary(c, s)
       /\ \E a \in Initial(s) :
            \/ Surname(a)
            \/ \E u \in Initial(a) : Surname(u)

\* self.abbr_pattern.search(sent) is not None, for
\* \b(abbr1|abbr2|...)\.  over re.escape of every abbreviation (lines 218-220)
AbbrSearch(sent) ==
  \E s \in 0..(Len(sent) - 1) :
    /\ WordBoundary(sent, s)
    /\ \E ab \in ABBREVIATIONS :
         /\ s + Len(ab) < Len(sent)
         /\ Slice(sent, s, s + Len(ab)) = ab
         /\ Char(sent, s + Len(ab)) = 46

(***************************************************************************)
(* The blocking checks (lines 226-263, 291-314).                           *)
(***************************************************************************)
\* is_abbreviation(text, pos)
is_abbreviation(abbrs, t, pos) ==
  IF pos <= 0 \/ pos >= Len(t) THEN FALSE
  ELSE \E look_back \in 1..(Min(11, pos + 1) - 1) :
         Strip(Lower(Slice(t, pos - look_back, pos))) \in abbrs

\* is_initials_context(text, pos)
is_initials_context_Narrow(t, pos) ==
  \* the window cut to the two characters on each side of pos
  InitialsSearch(Slice(t, Max(0, pos - 2), Min(Len(t), pos + 2)))

is_initials_context(t, pos) ==
  LET start == Max(0, pos - 20)
      end   == Min(Len(t), pos + 20)
  IN InitialsSearch(Slice(t, start, end))

\* _is_blocked_boundary(text, pos)
is_blocked_boundary(t, pos) ==
  \/ is_abbreviation(ABBREVIATIONS, t, pos - 1)
  \/ is_initials_context(t, pos)
  \/ /\ pos > 0 /\ pos < Len(t)
     /\ Char(t, pos - 1) \in Digit /\ Char(t, pos) \in Digit

(***************************************************************************)
(* find_sentence_boundaries (lines 265-289).                               *)
(***************************************************************************)
\* sorted(rs, key=lambda r: r.priority, reverse=True): stable, so rules of
\* equal priority keep their order
RECURSIVE SortedByPriority(_)
SortedByPriority(rs) ==
  IF rs = <<>> THEN <<>>
  ELSE LET top == SetMax({rs[i].priority : i \in 1..Len(rs)})
           i   == SetMin({k \in 1..Len(rs) : rs[k].priority = top})
       IN <<rs[i]>> \o SortedByPriority(SubSeq(rs, 1, i - 1) \o SubSeq(rs, i + 1, Len(rs)))

\* what one rule appends to `boundaries` (the inner loop, lines 278-284)
RuleBoundaries(rule, t) ==
  LET Kept(pos) == rule.is_boundary /\ ~is_blocked_boundary(t, pos)
  IN SelectSeq(FindIter(rule.name, t, 0), Kept)

\* the list `boundaries` after the loop over the rules (lines 277-284)
RECURSIVE CollectBoundaries(_, _)
CollectBoundaries(rs, t) ==
  IF rs = <<>> THEN <<>>
  ELSE RuleBoundaries(Head(rs), t) \o CollectBoundaries(Tail(rs), t)

\* sorted(set(boundaries))   (line 287)
RECURSIVE SortedSeqOf(_)
SortedSeqOf(S) ==
  IF S = {} THEN <<>> ELSE <<SetMin(S)>> \o SortedSeqOf(S \ {SetMin(S)})

RECURSIVE InsertSorted(_, _)
InsertSorted(x, s) ==
  IF s = <<>> \/ x <= Head(s) THEN <<x>> \o s
  ELSE <<Head(s)>> \o InsertSorted(x, Tail(s))

RECURSIVE SortKeepingDuplicates(_)
SortKeepingDuplicates(s) ==
  IF s = <<>> THEN <<>> ELSE InsertSorted(Head(s), SortKeepingDuplicates(Tail(s)))

SortedSet_NoDedup(s) ==
  \* sorted(boundaries) without the set(): repeated offsets survive
  SortKeepingDuplicates(s)

SortedSet(s) == SortedSeqOf({s[i] : i \in 1..Len(s)})

\* find_sentence_boundaries(text) on an engine whose rule table is rs
find_sentence_boundaries(rs, t) ==
  SortedSet(CollectBoundaries(SortedByPriority(rs), t))

(***************************************************************************)
(* The quality score (lines 316-380), in twentieths.                       *)
(***************************************************************************)
\* _split_by_boundaries(text, boundaries), the loop entered with `start`
RECURSIVE SplitFrom(_, _, _)
SplitFrom(t, bs, start) ==
  IF bs = <<>>
  THEN \* last sentence
       IF start < Len(t) /\ Strip(Slice(t, start, Len(t))) # <<>>
       THEN <<Strip(Slice(t, start, Len(t)))>>
       ELSE <<>>
  ELSE LET sentence == Strip(Slice(t, start, Head(bs)))
       IN (IF sentence # <<>> THEN <<sentence>> ELSE <<>>)
            \o SplitFrom(t, Tail(bs), Head(bs))

split_by_boundaries(t, bs) == SplitFrom(t, bs, 0)

\* what one sentence adds to `penalties` (lines 336-348)
SentencePenalty(sent0) ==
  LET sent == Strip(sent0)
  IN (IF Len(sent) < 3 THEN 2 ELSE 0)
     + (IF sent # <<>> /\ sent[1] \in LowerCase THEN 3 ELSE 0)
     + (IF Len(sent) < 10 /\ AbbrSearch(sent) THEN 4 ELSE 0)

RECURSIVE SumPenalties(_)
SumPenalties(sents) ==
  IF sents = <<>> THEN 0
  ELSE SentencePenalty(Head(sents)) + SumPenalties(Tail(sents))

\* get_quality_score(text, boundaries)
get_quality_score_NoClamp(t, bs) ==
  \* score - penalties without the max(0.0, ...)
  IF bs = <<>> THEN 0
  ELSE 20 - SumPenalties(split_by_boundaries(t, bs))

get_quality_score(t, bs) ==
  IF bs = <<>> THEN 0
  ELSE Max(0, 20 - SumPenalties(split_by_boundaries(t, bs)))

(***************************************************************************)
(* Inputs.  Texts: every string of at most MaxLen characters over a small  *)
(* alphabet with one character of each class the patterns tell apart,      *)
(* and the texts of the repository's tests and documentation.              *)
(***************************************************************************)
\* "А", "г" (an abbreviation), "е" (none), ".", "!", " ", "\n", "3"
Alphabet == {1040, 1075, 1077, 46, 33, 32, 10, 51}

\* Он родился в 1799 г. в Москве.  (comprehensive_tests.py line 110)
ExYear ==
  <<1054, 1085, 32, 1088, 1086, 1076, 1080, 1083, 1089, 1103, 32, 1074, 32, 49, 55, 57, 57, 32, 1075, 46, 32, 1074, 32, 1052, 1086, 1089, 1082, 1074, 1077, 46>>
\* в 1799 г. В Москве  (the example of the abbreviation check)
ExYearCapital ==
  <<1074, 32, 49, 55, 57, 57, 32, 1075, 46, 32, 1042, 32, 1052, 1086, 1089, 1082, 1074, 1077>>
\* А. С. Пушкин - великий русский поэт.  (comprehensive_tests.py line 116)
ExInitials ==
  <<1040, 46, 32, 1057, 46, 32, 1055, 1091, 1096, 1082, 1080, 1085, 32, 45, 32, 1074, 1077, 1083, 1080, 1082, 1080, 1081, 32, 1088, 1091, 1089, 1089, 1082, 1080, 1081, 32, 1087, 1086, 1101, 1090, 46>>
\* Вот А. Пушкин был тут. Вот  (initials earlier in the window of a later candidate)
ExInitialsFar ==
  <<1042, 1086, 1090, 32, 1040, 46, 32, 1055, 1091, 1096, 1082, 1080, 1085, 32, 1073, 1099, 1083, 32, 1090, 1091, 1090, 46, 32, 1042, 1086, 1090>>
\* Вот А. Пушкин был тут очень давно и долго. Вот  (initials more than 20 characters before the candidate)
ExInitialsOutside ==
  <<1042, 1086, 1090, 32, 1040, 46, 32, 1055, 1091, 1096, 1082, 1080, 1085, 32, 1073, 1099, 1083, 32, 1090, 1091, 1090, 32, 1086, 1095, 1077, 1085, 1100, 32, 1076, 1072, 1074, 1085, 1086, 32, 1080, 32, 1076, 1086, 1083, 1075, 1086, 46, 32, 1042, 1086, 1090>>
\* Число равно 3.14 и больше нуля.  (the decimal example)
ExDecimal ==
  <<1063, 1080, 1089, 1083, 1086, 32, 1088, 1072, 1074, 1085, 1086, 32, 51, 46, 49, 52, 32, 1080, 32, 1073, 1086, 1083, 1100, 1096, 1077, 32, 1085, 1091, 1083, 1103, 46>>
\* Число 3.14! Вот  (a decimal followed by a sentence end)
ExDecimalSplit ==
  <<1063, 1080, 1089, 1083, 1086, 32, 51, 46, 49, 52, 33, 32, 1042, 1086, 1090>>
\* Первое. Второе. Третье.  (comprehensive_tests.py line 187)
ExMulti ==
  <<1055, 1077, 1088, 1074, 1086, 1077, 46, 32, 1042, 1090, 1086, 1088, 1086, 1077, 46, 32, 1058, 1088, 1077, 1090, 1100, 1077, 46>>
\* Привет! Как дела? Всё хорошо.  (comprehensive_tests.py line 193)
ExGreeting ==
  <<1055, 1088, 1080, 1074, 1077, 1090, 33, 32, 1050, 1072, 1082, 32, 1076, 1077, 1083, 1072, 63, 32, 1042, 1089, 1105, 32, 1093, 1086, 1088, 1086, 1096, 1086, 46>>
\* г! г! г! г! г! г  (short lower-case pieces: penalties above 1.0)
ExPenalties ==
  <<1075, 33, 32, 1075, 33, 32, 1075, 33, 32, 1075, 33, 32, 1075, 33, 32, 1075>>
\* !\n\n А  (all three rules match)
ExParagraph ==
  <<33, 10, 10, 32, 1040>>

Examples ==
  {ExYear, ExYearCapital, ExInitials, ExInitialsFar, ExInitialsOutside,
   ExDecimal, ExDecimalSplit, ExMulti, ExGreeting, ExPenalties, ExParagraph}

ShortTexts == UNION {[1..n -> Alphabet] : n \in 0..MaxLen}

Texts == ShortTexts \cup Examples

(***************************************************************************)
(* Texts for the prefix comparison: up to MaxSegs segments, among them a   *)
(* whitespace run one longer than the initials window.                     *)
(***************************************************************************)
Pad == [i \in 1..21 |-> 32]

Segments ==
  {<<46>>, <<33>>, <<32>>, <<10>>, <<1040>>, <<1075>>, <<46, 10, 10>>, Pad}

RECURSIVE Concat(_)
Concat(ss) == IF ss = <<>> THEN <<>> ELSE Head(ss) \o Concat(Tail(ss))

SegmentTexts ==
  {Concat(ss) : ss \in UNION {[1..n -> Segments] : n \in 0..MaxSegs}}

\* the threads' texts
ThreadTexts == {ExParagraph, ExYearCapital, <<33, 32, 1040, 46, 32, 1040>>}

Threads == 1..NThreads

\* _global_patterns = None (line 384)
None == 0

(***************************************************************************)
(* State after the module is imported and one engine is constructed for    *)
(* the sequential caller and the threads (__init__, lines 182-184).        *)
(***************************************************************************)
Init ==
  /\ rules = CompiledRules
  /\ pc = "idle"
  /\ text = <<>>
  /\ boundaries = <<>>
  /\ score = 0
  /\ prefixLen = 0
  /\ prefixBoundaries = <<>>
  /\ global_patterns = None
  /\ constructed = 0
  /\ tpc = [t \in Threads |-> "idle"]
  /\ tlocal = [t \in Threads |-> None]
  /\ tret = [t \in Threads |-> None]
  /\ ttext = [t \in Threads |-> <<>>]
  /\ tacc = [t \in Threads |-> <<>>]
  /\ tidx = [t \in Threads |-> 0]
  /\ tsorted = [t \in Threads |-> <<>>]
  /\ tresult = [t \in Threads |-> <<>>]
  /\ tscore = [t \in Threads |-> 0]

singletonVars == <<global_patterns, constructed, tlocal, tret>>
threadCallVars == <<ttext, tacc, tidx, tsorted, tresult, tscore>>
prefixVars == <<prefixLen, prefixBoundaries>>

(***************************************************************************)
(* The sequential caller: one call of find_sentence_boundaries, then one   *)
(* of get_quality_score on its result.                                     *)
(***************************************************************************)
\* boundaries = engine.find_sentence_boundaries(t), for a text t of Texts
FindSentenceBoundaries ==
  /\ pc = "idle"
  /\ \E t \in Texts :
       /\ text' = t
       /\ boundaries' = find_sentence_boundaries(rules, t)
  /\ pc' = "found"
  /\ UNCHANGED <<rules, score, prefixVars, tpc, singletonVars, threadCallVars>>

\* score = engine.get_quality_score(text, boundaries)
GetQualityScore ==
  /\ pc = "found"
  /\ score' = get_quality_score(text, boundaries)
  /\ pc' = "scored"
  /\ UNCHANGED <<rules, text, boundaries, prefixVars, tpc, singletonVars, threadCallVars>>

\* the caller drops the results and is ready for another text
Release ==
  /\ pc \in {"scored", "extended"}
  /\ pc' = "idle"
  /\ text' = <<>>
  /\ boundaries' = <<>>
  /\ score' = 0
  /\ prefixLen' = 0
  /\ prefixBoundaries' = <<>>
  /\ UNCHANGED <<rules, tpc, singletonVars, threadCallVars>>

Next ==
  \/ FindSentenceBoundaries
  \/ GetQualityScore
  \/ Release

Spec == Init /\ [][Next]_vars

(***************************************************************************)
(* Text extension: the scan of a prefix P of a text, then of the text.     *)
(***************************************************************************)
\* engine.find_sentence_boundaries(t[:n]), for a text t of SegmentTexts
ScanPrefix ==
  /\ pc = "idle"
  /\ \E t \in SegmentTexts : \E n \in 0..Len(t) :
       /\ text' = t
       /\ prefixLen' = n
       /\ prefixBoundaries' = find_sentence_boundaries(rules, Slice(t, 0, n))
  /\ pc' = "prefix"
  /\ UNCHANGED <<rules, boundaries, score, tpc, singletonVars, threadCallVars>>

\* engine.find_sentence_boundaries(text)
ScanExtended ==
  /\ pc = "prefix"
  /\ boundaries' = find_sentence_boundaries(rules, text)
  /\ pc' = "extended"
  /\ UNCHANGED <<rules, text, score, prefixVars, tpc, singletonVars, threadCallVars>>

NextExtension ==
  \/ ScanPrefix
  \/ ScanExtended
  \/ Release

SpecExtension == Init /\ [][NextExtension]_vars

(***************************************************************************)
(* get_syntagrus_patterns (lines 387-398), one step per read or write of   *)
(* the module global: a thread switch can fall between any two of them.    *)
(***************************************************************************)
\* a thread enters get_syntagrus_patterns()
CallGet(t) ==
  /\ tpc[t] = "idle"
  /\ tpc' = [tpc EXCEPT ![t] = "check"]
  /\ UNCHANGED <<rules, pc, text, boundaries, score, prefixVars, singletonVars, threadCallVars>>

\* if _global_patterns is None:   (line 395)
CheckGlobal(t) ==
  /\ tpc[t] = "check"
  /\ tpc' = [tpc EXCEPT ![t] = IF global_patterns = None THEN "construct" ELSE "return"]
  /\ UNCHANGED <<rules, pc, text, boundaries, score, prefixVars, singletonVars, threadCallVars>>

\* SynTagRusPatterns()   (line 396, right-hand side): instance number constructed + 1
Construct(t) ==
  /\ tpc[t] = "construct"
  /\ constructed' = constructed + 1
  /\ tlocal' = [tlocal EXCEPT ![t] = constructed + 1]
  /\ tpc' = [tpc EXCEPT ![t] = "assign"]
  /\ UNCHANGED <<rules, pc, text, boundaries, score, prefixVars, global_patterns, tret, threadCallVars>>

\* _global_patterns = <the new instance>   (line 396, the store)
AssignGlobal(t) ==
  /\ tpc[t] = "assign"
  /\ global_patterns' = tlocal[t]
  /\ tpc' = [tpc EXCEPT ![t] = "return"]
  /\ UNCHANGED <<rules, pc, text, boundaries, score, prefixVars, constructed, tlocal, tret, threadCallVars>>

\* return _global_patterns   (line 398)
ReturnGlobal(t) ==
  /\ tpc[t] = "return"
  /\ tret' = [tret EXCEPT ![t] = global_patterns]
  /\ tpc' = [tpc EXCEPT ![t] = "idle"]
  /\ UNCHANGED <<rules, pc, text, boundaries, score, prefixVars, global_patterns, constructed, tlocal, threadCallVars>>

NextSingleton ==
  \E t \in Threads :
    \/ CallGet(t)
    \/ CheckGlobal(t)
    \/ Construct(t)
    \/ AssignGlobal(t)
    \/ ReturnGlobal(t)

SpecSingleton == Init /\ [][NextSingleton]_vars

(***************************************************************************)
(* Threads sharing one engine: find_sentence_boundaries one rule of its    *)
(* loop at a time (lines 274-289), then get_quality_score.  `boundaries`   *)
(* and the sorted copy of the rule table are locals of the call.           *)
(***************************************************************************)
sequentialVars == <<pc, text, boundaries, score, prefixVars>>

\* the call begins: boundaries = [] and sorted(self.rules, ...)  (lines 274, 277)
BeginScan(t, x) ==
  /\ tpc[t] = "idle"
  /\ ttext' = [ttext EXCEPT ![t] = x]
  /\ tacc' = [tacc EXCEPT ![t] = <<>>]
  /\ tsorted' = [tsorted EXCEPT ![t] = SortedByPriority(rules)]
  /\ tidx' = [tidx EXCEPT ![t] = 1]
  /\ tresult' = [tresult EXCEPT ![t] = <<>>]
  /\ tscore' = [tscore EXCEPT ![t] = 0]
  /\ tpc' = [tpc EXCEPT ![t] = "loop"]
  /\ UNCHANGED <<rules, sequentialVars, singletonVars>>

\* one iteration of the loop over the rules (lines 277-284)
ApplyRule_Consuming(t) ==
  \* the iteration also removes the rule it has applied from self.rules
  /\ tpc[t] = "loop"
  /\ tidx[t] <= Len(tsorted[t])
  /\ tacc' = [tacc EXCEPT ![t] = @ \o RuleBoundaries(tsorted[t][tidx[t]], ttext[t])]
  /\ tidx' = [tidx EXCEPT ![t] = @ + 1]
  /\ rules' = SelectSeq(rules, LAMBDA r : r.name # tsorted[t][tidx[t]].name)
  /\ UNCHANGED <<sequentialVars, singletonVars, tpc, ttext, tsorted, tresult, tscore>>

ApplyRule(t) ==
  /\ tpc[t] = "loop"
  /\ tidx[t] <= Len(tsorted[t])
  /\ tacc' = [tacc EXCEPT ![t] = @ \o RuleBoundaries(tsorted[t][tidx[t]], ttext[t])]
  /\ tidx' = [tidx EXCEPT ![t] = @ + 1]
  /\ UNCHANGED <<rules, sequentialVars, singletonVars, tpc, ttext, tsorted, tresult, tscore>>

\* boundaries = sorted(set(boundaries)); return boundaries  (lines 287-289)
FinishScan(t) ==
  /\ tpc[t] = "loop"
  /\ tidx[t] > Len(tsorted[t])
  /\ tresult' = [tresult EXCEPT ![t] = SortedSet(tacc[t])]
  /\ tpc' = [tpc EXCEPT ![t] = "found"]
  /\ UNCHANGED <<rules, sequentialVars, singletonVars, ttext, tacc, tidx, tsorted, tscore>>

\* engine.get_quality_score(text, boundaries): reads self.abbr_pattern only
ThreadScore(t) ==
  /\ tpc[t] = "found"
  /\ tscore' = [tscore EXCEPT ![t] = get_quality_score(ttext[t], tresult[t])]
  /\ tpc' = [tpc EXCEPT ![t] = "idle"]
  /\ UNCHANGED <<rules, sequentialVars, singletonVars, ttext, tacc, tidx, tsorted, tresult>>

NextThreads ==
  \E t \in Threads :
    \/ \E x \in ThreadTexts : BeginScan(t, x)
    \/ ApplyRule(t)
    \/ FinishScan(t)
    \/ ThreadScore(t)

SpecThreads == Init /\ [][NextThreads]_vars

(***************************************************************************)
(* Properties.                                                             *)
(***************************************************************************)
\* the call of find_sentence_boundaries on `text` has returned
Returned == pc \in {"found", "scored"}

BoundarySet == {boundaries[i] : i \in 1..Len(boundaries)}

\* offset at which the whitespace run that ends just before offset b begins
WhitespaceStart(t, b) == SetMin({k \in 0..b : \A i \in k..(b - 1) : Char(t, i) \in Space})

\* offset at which the punctuation run that ends just before offset w begins
PunctuationStart(t, w) == SetMin({k \in 0..w : \A i \in k..(w - 1) : Char(t, i) \in EndPunct})

\* the punctuation before the whitespace before offset b directly follows a
\* known abbreviation: a substring of 1 to 10 characters that ends where the
\* punctuation begins is, lower-cased and trimmed, in ABBREVIATIONS
AfterAbbreviation(t, b) ==
  LET w == WhitespaceStart(t, b)
      p == PunctuationStart(t, w)
  IN /\ p < w
     /\ \E k \in 1..Min(10, p) : Strip(Lower(Slice(t, p - k, p))) \in ABBREVIATIONS

\* C1: no returned boundary follows punctuation that directly follows a
\* known abbreviation; for "в 1799 г. В Москве" none after "г. ".
AbbreviationBlocks ==
  Returned =>
    /\ \A b \in BoundarySet : ~AfterAbbreviation(text, b)
    /\ text = ExYearCapital => 10 \notin BoundarySet

\* C2 as stated: for "Он родился в 1799 г. в Москве." there is no boundary
\* after "г." and the result is exactly one boundary, at len(text).
YearSentenceOneFinalBoundary ==
  (Returned /\ text = ExYear) =>
    /\ 20 \notin BoundarySet /\ 21 \notin BoundarySet
    /\ boundaries = <<Len(text)>>

\* C2 amended: for "Он родился в 1799 г. в Москве." there is no boundary
\* after "г." and the result is the empty list: no rule matches a period
\* that ends the text.
YearSentenceNoBoundary ==
  (Returned /\ text = ExYear) =>
    /\ 20 \notin BoundarySet /\ 21 \notin BoundarySet
    /\ boundaries = <<>>

YearSentenceScanned == pc = "found" /\ text = ExYear

\* x is the initials shape: an upper-case Cyrillic letter and a period, an
\* optional second letter and period, then a capitalised word; whitespace
\* may follow each period
AllIn(x, C) == \A i \in 1..Len(x) : x[i] \in C

IsInitial(x) ==
  Len(x) >= 2 /\ x[1] \in UpperCyr /\ x[2] = 46 /\ AllIn(SubSeq(x, 3, Len(x)), Space)

IsCapitalisedWord(x) ==
  Len(x) >= 2 /\ x[1] \in UpperCyr /\ AllIn(SubSeq(x, 2, Len(x)), LowerCyr)

IsInitialsShape(x) ==
  \E i \in 1..Len(x) :
    /\ IsCapitalisedWord(SubSeq(x, i + 1, Len(x)))
    /\ \/ IsInitial(SubSeq(x, 1, i))
       \/ \E j \in 1..(i - 1) : IsInitial(SubSeq(x, 1, j)) /\ IsInitial(SubSeq(x, j + 1, i))

\* the slice text[max(0,pos-20) : min(len,pos+20)] contains the shape as
\* whole words
ShapeInWindow(t, pos) ==
  LET w == Slice(t, Max(0, pos - 20), Min(Len(t), pos + 20))
  IN \E s \in 0..Len(w) : \E e \in s..Len(w) :
       WordBoundary(w, s) /\ WordBoundary(w, e) /\ IsInitialsShape(Slice(w, s, e))

\* C3: no returned boundary has the initials shape anywhere in its window of
\* 20 characters on each side; for "А. С. Пушкин - великий русский поэт."
\* there is no boundary after "А." or after "С.".
InitialsBlock ==
  Returned =>
    /\ \A b \in BoundarySet : ~ShapeInWindow(text, b)
    /\ text = ExInitials => (3 \notin BoundarySet /\ 6 \notin BoundarySet)

\* a candidate after "тут. " is dropped for the initials 16 characters back
InitialsBlockedFar ==
  /\ pc = "found" /\ text = ExInitialsFar
  /\ MatchSentenceEndCapital(text, 21) = 23
  /\ ShapeInWindow(text, 23)
  /\ boundaries = <<>>

\* offset b lies strictly inside a run digits "." digits
InsideDecimal(t, b) ==
  \E s \in 0..(b - 1) : \E e \in (b + 1)..Len(t) :
    \E d \in (s + 1)..(e - 2) :
      /\ Char(t, d) = 46
      /\ AllIn(Slice(t, s, d), Digit)
      /\ AllIn(Slice(t, d + 1, e), Digit)

\* C4: no returned boundary lies between two decimal digits, nor strictly
\* inside a digit-period-digit run such as "3.14".
DecimalNonSplit ==
  Returned =>
    \A b \in BoundarySet :
      /\ ~(0 < b /\ b < Len(text) /\ Char(text, b - 1) \in Digit /\ Char(text, b) \in Digit)
      /\ ~InsideDecimal(text, b)

\* "Число 3.14! Вот" is split after "3.14! " and nowhere in "3.14"
DecimalKeptWhole ==
  /\ pc = "found" /\ text = ExDecimalSplit
  /\ InsideDecimal(text, 8)
  /\ boundaries = <<12>>

\* C5: wherever a run of . ! ? is followed by whitespace and then an
\* upper-case Cyrillic letter, a quote mark or "(", and no blocking check
\* fires, the offset of that character is returned; "Первое. Второе.
\* Третье." gives exactly the two boundaries 8 and 16.
MultiSentenceSplit ==
  Returned =>
    /\ \A k \in 2..(Len(text) - 1) :
         ( /\ Char(text, k) \in Opener
           /\ Char(text, k - 1) \in Space
           /\ WhitespaceStart(text, k) > 0
           /\ Char(text, WhitespaceStart(text, k) - 1) \in EndPunct
           /\ ~is_blocked_boundary(text, k) )
         => k \in BoundarySet
    /\ text = ExMulti => boundaries = <<8, 16>>

ThreeSentencesSplit ==
  /\ pc = "found" /\ text = ExMulti
  /\ boundaries = <<8, 16>>
  /\ Len(split_by_boundaries(text, boundaries)) = 3

\* C6: the result is strictly ascending, every offset is in 0..len(text), and
\* it is empty when the text holds none of . ! ? (the empty text included).
OutputShape ==
  Returned =>
    /\ \A i \in 1..Len(boundaries) : boundaries[i] \in 0..Len(text)
    /\ \A i \in 1..(Len(boundaries) - 1) : boundaries[i] < boundaries[i + 1]
    /\ (\A i \in 1..Len(text) : text[i] \notin EndPunct) => boundaries = <<>>

\* two rules give the same offset for "! А", which is returned once
SameOffsetTwice ==
  /\ pc = "found" /\ text = <<33, 32, 1040>>
  /\ MatchSentenceEndCapital(text, 0) = 2
  /\ MatchQuestionExclamation(text, 0) = 2
  /\ boundaries = <<2>>

\* the trimmed piece of the text between cut k and cut k + 1, the cuts
\* being 0, the boundaries and len(text)
Cut(t, bs, k) ==
  IF k = 0 THEN 0 ELSE IF k = Len(bs) + 1 THEN Len(t) ELSE bs[k]

Piece(t, bs, k) == Strip(Slice(t, Cut(t, bs, k), Cut(t, bs, k + 1)))

\* the penalty of one piece, in twentieths: 2 when shorter than 3, 3 when it
\* starts with a lower-case letter, 4 when shorter than 10 and matching the
\* abbreviation-and-period pattern; an empty piece is dropped
PiecePenalty(x) ==
  IF x = <<>> THEN 0
  ELSE (IF Len(x) < 3 THEN 2 ELSE 0)
       + (IF x[1] \in LowerCase THEN 3 ELSE 0)
       + (IF Len(x) < 10 /\ AbbrSearch(x) THEN 4 ELSE 0)

RECURSIVE PenaltyUpTo(_, _, _)
PenaltyUpTo(t, bs, k) ==
  IF k < 0 THEN 0 ELSE PiecePenalty(Piece(t, bs, k)) + PenaltyUpTo(t, bs, k - 1)

\* C7: the score is in [0.0, 1.0] (0..20 twentieths): 0 for an empty
\* boundary list, otherwise max(0, 20 - P) for the penalties P of the
\* pieces, hence 20 when no piece is penalised.
QualityScoreRange ==
  pc = "scored" =>
    /\ score \in 0..20
    /\ boundaries = <<>> => score = 0
    /\ boundaries # <<>> =>
         /\ score = Max(0, 20 - PenaltyUpTo(text, boundaries, Len(boundaries)))
         /\ (\A k \in 0..Len(boundaries) : PiecePenalty(Piece(text, boundaries, k)) = 0)
              => score = 20

\* the penalties of "г! г! г! г! г! г" exceed 1.0 and the score is 0.0
ScoreClamped ==
  /\ pc = "scored" /\ text = ExPenalties
  /\ boundaries # <<>>
  /\ PenaltyUpTo(text, boundaries, Len(boundaries)) > 20
  /\ score = 0

\* C8: SynTagRusPatterns is constructed at most once, and every call of
\* get_syntagrus_patterns that has returned has returned the same instance.
SingletonConstructedOnce ==
  /\ constructed <= 1
  /\ \A t1, t2 \in Threads :
       (tret[t1] # None /\ tret[t2] # None) => tret[t1] = tret[t2]

\* C9: the boundaries of a prefix P at offsets more than 20 characters before
\* the end of P are exactly the boundaries of the whole text at those offsets.
PrefixBoundariesStable ==
  pc = "extended" =>
    {prefixBoundaries[i] : i \in 1..Len(prefixBoundaries)} \cap (0..(prefixLen - 21))
      = BoundarySet \cap (0..(prefixLen - 21))

\* C10: no call changes the rule table, and every call that has returned,
\* whatever ran before or alongside it, returned what the engine as
\* constructed gives for its text.
EngineStateImmutable ==
  /\ rules = CompiledRules
  /\ \A t \in Threads :
       tpc[t] = "found" => tresult[t] = find_sentence_boundaries(CompiledRules, ttext[t])

\* one thread has returned boundaries while another is inside its loop on a
\* different text
CallsInterleaved ==
  \E t1, t2 \in Threads :
    /\ t1 # t2
    /\ tpc[t1] = "found" /\ tresult[t1] # <<>>
    /\ tpc[t2] = "loop" /\ tidx[t2] = 2
    /\ ttext[t1] # ttext[t2]

\* the rule table is scanned by descending priority, rules of equal priority
\* in the order of their declaration
ScannedByPriority ==
  LET s == SortedByPriority(rules)
  IN \A i, j \in 1..Len(s) :
       i < j =>
         /\ s[i].priority >= s[j].priority
         /\ s[i].priority = s[j].priority =>
              \E a, b \in 1..Len(rules) : a < b /\ rules[a] = s[i] /\ rules[b] = s[j]

\* C11: the rules are scanned in descending priority, and a punctuation run
\* with its trailing whitespace gets at most one boundary, the candidate of
\* the highest-priority rule that fires there; "!\n\n А" gets only one.
OneBoundaryPerPunctuationRun ==
  Returned =>
    /\ ScannedByPriority
    /\ \A b1, b2 \in BoundarySet :
         WhitespaceStart(text, b1) = WhitespaceStart(text, b2) => b1 = b2
    /\ text = ExParagraph => Len(boundaries) = 1

====
